---- MODULE Spec2Model ----
(***************************************************************************)
(* llm-router: the chat-completion proxy handler (src/main.go) and its     *)
(* helpers (src/utils.go), as a state machine of ONE inbound request.      *)
(*                                                                         *)
(* The handler runs sequentially in one goroutine.  It is cut into steps   *)
(* at its suspension points only: the upstream call (doUpstreamRequest),   *)
(* the buffering of a response body (readResponse -> io.ReadAll) and each  *)
(* chunk of the stream copy (copyStream).  Everything the code does        *)
(* between two suspension points is one action.                            *)
(*                                                                         *)
(* Strings that the code inspects character by character (model names)     *)
(* are sequences of one-character strings.  Durations are whole seconds.   *)
(* The body of an upstream response is represented by the index of the     *)
(* attempt that received it, so that two attempts never share a body.      *)
(* An entry of `written` is one response as the caller sees it: its kind   *)
(* (buffered: writeResponse; stream: the status line of a stream copy;     *)
(* json: a fixed error object of the proxy), its status, its body and, for *)
(* json, the text of the "error" field.                                    *)
(*                                                                         *)
(* The inbound context can be cancelled whenever the handler is suspended. *)
(* The suspended call then returns context.Canceled; a call that returns   *)
(* anything else is a call that finished before the cancellation, which    *)
(* is the same behaviour as the cancellation arriving after the return.    *)
(* A body read can fail for any reason (ReadResponseErr is always enabled  *)
(* while reading): a broken connection, an elapsed deadline, or the        *)
(* attempt context that doUpstreamRequest cancels on return.               *)
(***************************************************************************)
EXTENDS Integers, Sequences, FiniteSets, TLC

\* ------------------------------------------------------------------ bounds
MaxNameLen == 2      \* longest `model` string of an inbound payload
MaxFallbacks == 2    \* longest FALLBACK_MODELS list
MaxChunks == 1       \* most chunks one stream copy delivers

\* ------------------------------------------------------- program constants
StatusBadRequest == 400
StatusBadGateway == 502
StatusServiceUnavailable == 503

\* ------------------------------------------------------------ input sets
Chars == {" ", "a"}
FallbackNames == {<<"a">>, <<"b">>}
Statuses == {200, 400, 500}
NoRetrySets == {{}, {400}, {400, 500}}
Durations == {0, 60}
FallbackDurations == {0, 30}
TimeoutMaps ==
    { <<>>,
      [m \in {<<"a">>, <<"b">>} |-> IF m = <<"a">> THEN 15 ELSE 0] }

SeqsUpTo(S, n) == UNION {[1..k -> S] : k \in 0..n}

\* A JSON value: t is "string", "bool" or "number" for a value of the request
\* body, with "float64" in place of "number" once json.Unmarshal has decoded it
\* into map[string]interface{}, and "absent" when the key is missing; s, b, n
\* hold the string, bool and numeric value, and big says that the number is
\* 2^53 + n.
JAbsent == [t |-> "absent", s |-> <<>>, b |-> FALSE, n |-> 0, big |-> FALSE]
JStr(x) == [t |-> "string", s |-> x, b |-> FALSE, n |-> 0, big |-> FALSE]
JBool(x) == [t |-> "bool", s |-> <<>>, b |-> x, n |-> 0, big |-> FALSE]
\* a number literal of the body: the integer x, or (JBigNum) the integer 2^53 + x
JNum(x) == [t |-> "number", s |-> <<>>, b |-> FALSE, n |-> x, big |-> FALSE]
JBigNum(x) == [t |-> "number", s |-> <<>>, b |-> FALSE, n |-> x, big |-> TRUE]

ModelValues == {JAbsent, JNum(7)} \cup {JStr(x) : x \in SeqsUpTo(Chars, MaxNameLen)}
StreamValues == {JAbsent, JBool(TRUE), JNum(0), JStr(<<" ", "1">>)}
Messages == JStr(<<"h", "i">>)
\* `seed`, a field the proxy does not look at: 7, 2^53 + 1 and 2^53 + 2
SeedValues == {JNum(7), JBigNum(1), JBigNum(2)}

NoPayload == [model |-> JAbsent, stream |-> JAbsent, messages |-> JAbsent, seed |-> JAbsent]
\* the body {"model": m, "stream": s, "messages": ..., "seed": d}; JAbsent: no such key
Body(m, s, d) == [model |-> m, stream |-> s, messages |-> Messages, seed |-> d]

\* The inbound request: how its body reads, and the JSON object it holds.  (A
\* server request always has a non-nil Body, so "nil" is not among the inputs.)  Every
\* model value comes with `stream` absent and with `stream: true`; the other
\* spellings of `stream` come with the model "a".
\* host is the Host the caller addressed; tls tells whether the caller connected
\* over TLS (https) or not (http).  Requests arrive over plain http, and one
\* request over https.
HttpRequest(k, doc) == [body |-> k, json |-> doc, host |-> "localhost:8080", tls |-> FALSE]

Requests ==
    {HttpRequest(k, NoPayload) : k \in {"unreadable", "empty", "invalid_json"}}
    \cup {HttpRequest("object", Body(m, s, JAbsent)) :
            m \in ModelValues, s \in {JAbsent, JBool(TRUE)}}
    \cup {HttpRequest("object", Body(JStr(<<"a">>), s, JAbsent)) : s \in StreamValues}
    \cup {HttpRequest("object", Body(JStr(<<"a">>), JAbsent, d)) : d \in SeedValues}
    \cup {[HttpRequest("object", Body(JStr(<<"a">>), JAbsent, JAbsent)) EXCEPT !.tls = TRUE]}

\* requests that reach the loop: the model "a", buffered and streamed
FaultRequests ==
    {HttpRequest("object", Body(JStr(<<"a">>), s, JAbsent)) : s \in {JAbsent, JBool(TRUE)}}

\* marshalFault when json.Marshal never fails
NoFault == -1

\* OPENAI_BASE_URL, parsed: the default upstream
TargetURLs == {[scheme |-> "https", host |-> "api.openai.com"]}

Configs ==
    [targetURL : TargetURLs,
     fallbackModels : SeqsUpTo(FallbackNames, MaxFallbacks),
     defaultTimeout : Durations,
     fallbackDefaultTimeout : FallbackDurations,
     fallbackTimeouts : TimeoutMaps,
     noRetryStatuses : NoRetrySets]

\* Inputs of the planner taken on its own: fallback entries as buildAttemptModels
\* accepts them, untrimmed and possibly blank.
RawNames == {<<" ">>, <<"a">>, <<"a", " ">>, <<"b">>}
PlannerConfigs ==
    [targetURL : TargetURLs,
     fallbackModels : SeqsUpTo(RawNames, MaxFallbacks),
     defaultTimeout : {60},
     fallbackDefaultTimeout : {0},
     fallbackTimeouts : {<<>>},
     noRetryStatuses : {{400}}]

NoResponse == [status |-> 0, body |-> -1]

\* no upstream request built yet
NoUpstream ==
    [ctx |-> "inbound", deadline |-> 0, cancelled |-> FALSE, client |-> "shared",
     responseHeaderTimeout |-> 0, disableKeepAlives |-> FALSE,
     host |-> "", xForwardedHost |-> "", xForwardedProto |-> ""]

VARIABLES
    cfg,            \* *proxyConfig, read-only after newProxyConfig
    request,        \* the inbound request (c.Request)
    ctxCancelled,   \* c.Request.Context() is cancelled
    pc,             \* where the handler is: start, inflight, reading, streaming, done
    payload,        \* the decoded payload map, mutated by marshalPayloadWithModel
    stream,         \* stream := isStreamRequest(payload)
    attemptModels,  \* attemptModels := buildAttemptModels(...)
    idx,            \* the loop index of the current attempt (0-based)
    timeout,        \* timeout := timeoutForAttempt(cfg, idx, model)
    outboundBody,   \* the JSON document sent upstream for the current attempt
    upstream,       \* the upstream request of the current attempt: context, client, headers
    resp,           \* the upstream response in hand
    lastResp,       \* var lastResp *cachedResponse
    lastErr,        \* var lastErr error: "nil", or which call returned the error kept
    written,        \* what the caller's ResponseWriter received, one entry per status line
    streamed,       \* chunks copied to the caller by copyStream
    attempts,       \* history: one record per upstream dispatch
    marshalFault,   \* the loop index at which json.Marshal returns an error, or NoFault
    openBodies      \* loop indexes of the upstream responses whose Body is not closed

vars == <<cfg, request, ctxCancelled, pc, payload, stream, attemptModels, idx, timeout,
          outboundBody, upstream, resp, lastResp, lastErr, written, streamed, attempts,
          marshalFault, openBodies>>

\* ------------------------------------------------------------ pure helpers
IsSpace(c) == c = " "

RECURSIVE TrimLeft(_)
TrimLeft(s) == IF s # <<>> /\ IsSpace(Head(s)) THEN TrimLeft(Tail(s)) ELSE s

RECURSIVE TrimRight(_)
TrimRight(s) ==
    IF s # <<>> /\ IsSpace(s[Len(s)]) THEN TrimRight(SubSeq(s, 1, Len(s) - 1)) ELSE s

\* strings.TrimSpace
TrimSpace(s) == TrimRight(TrimLeft(s))

\* strings.ToLower on the characters the model draws from
ToLower(s) == [i \in 1..Len(s) |-> IF s[i] = "A" THEN "a" ELSE s[i]]

isStreamRequest(p) ==
    CASE p.stream.t = "absent" -> FALSE
      [] p.stream.t = "bool" -> p.stream.b
      [] p.stream.t = "string" ->
            LET l == ToLower(TrimSpace(p.stream.s))
            IN  l \in {<<"t", "r", "u", "e">>, <<"1">>, <<"y", "e", "s">>, <<"o", "n">>}
      [] p.stream.t = "float64" -> p.stream.n # 0
      [] OTHER -> FALSE

\* mutant: the model string is not trimmed before the emptiness test
extractModelName_NoTrim(p) ==
    IF p.model.t = "absent" THEN <<>>
    ELSE IF p.model.t = "string" THEN p.model.s
    ELSE <<>>

extractModelName(p) ==
    IF p.model.t = "absent" THEN <<>>
    ELSE IF p.model.t = "string" THEN TrimSpace(p.model.s)
    ELSE <<>>

\* mutant: the `seen` check is dropped, so a repeated model is planned twice
add_NoDedup(out, model) ==
    LET m == TrimSpace(model)
    IN  IF m = <<>> THEN out ELSE Append(out, m)

\* mutant: `seen` is consulted with the untrimmed entry
add_SeenBeforeTrim(out, model) ==
    LET m == TrimSpace(model)
    IN  IF m = <<>> THEN out
        ELSE IF \E i \in 1..Len(out) : out[i] = model THEN out
        ELSE Append(out, m)

\* the closure `add` of buildAttemptModels; `seen` holds exactly the elements of out
add(out, model) ==
    LET m == TrimSpace(model)
    IN  IF m = <<>> THEN out
        ELSE IF \E i \in 1..Len(out) : out[i] = m THEN out
        ELSE Append(out, m)

RECURSIVE addAll(_, _)
addAll(out, models) ==
    IF models = <<>> THEN out ELSE addAll(add(out, Head(models)), Tail(models))

buildAttemptModels(primary, fallbacks) == addAll(add(<<>>, primary), fallbacks)

\* mutant: the per-model map is consulted for the primary attempt too
timeoutForAttempt_MapFirst(c, i, model) ==
    IF model \in DOMAIN c.fallbackTimeouts THEN c.fallbackTimeouts[model]
    ELSE IF i = 0 THEN c.defaultTimeout
    ELSE IF c.fallbackDefaultTimeout > 0 THEN c.fallbackDefaultTimeout
    ELSE c.defaultTimeout

timeoutForAttempt(c, i, model) ==
    IF i = 0 THEN c.defaultTimeout
    ELSE IF model \in DOMAIN c.fallbackTimeouts THEN c.fallbackTimeouts[model]
    ELSE IF c.fallbackDefaultTimeout > 0 THEN c.fallbackDefaultTimeout
    ELSE c.defaultTimeout

\* mutant: the lower bound is exclusive
isSuccessStatus_Exclusive(status) == status > 200 /\ status < 300

isSuccessStatus(status) == status >= 200 /\ status < 300

\* mutant: the map lookup's `ok` is read inverted
isNoRetryStatus_Inverted(status, noRetry) == status \notin noRetry

isNoRetryStatus(status, noRetry) == status \in noRetry

\* json.Unmarshal into map[string]interface{}: a number literal becomes the
\* nearest float64 (ties to even).  Between 2^53 and 2^54 the float64 values are
\* the even integers, so 2^53 + n is kept for even n and rounded to a multiple of
\* four for odd n.
ParseFloat(v) ==
    IF v.big /\ v.n % 2 = 1
    THEN IF v.n % 4 = 1 THEN v.n - 1 ELSE v.n + 1
    ELSE v.n

Unmarshal(doc) ==
    [k \in DOMAIN doc |->
        IF doc[k].t = "number"
        THEN [doc[k] EXCEPT !.t = "float64", !.n = ParseFloat(doc[k])]
        ELSE doc[k]]

\* json.Marshal of the payload map: an integral float64 is written as its digits
Marshal(p) ==
    [k \in DOMAIN p |-> IF p[k].t = "float64" THEN [p[k] EXCEPT !.t = "number"] ELSE p[k]]

\* marshalPayloadWithModel: payload["model"] = model, in place; the map after it
marshalPayloadWithModel(p, model) == [p EXCEPT !.model = JStr(model)]

\* readResponse, on success: the cachedResponse of the response in hand
readResponse(r) == [status |-> r.status, body |-> r.body]

\* what writeResponse puts on the wire for a cachedResponse
writeResponse(w, r) ==
    Append(w, [kind |-> "buffered", status |-> r.status, body |-> r.body, error |-> ""])

\* c.AbortWithStatusJSON(status, gin.H{"error": msg})
AbortWithStatusJSON(w, status, msg) ==
    Append(w, [kind |-> "json", status |-> status, body |-> -1, error |-> msg])

\* mutant: the deadline context is derived for stream attempts too
doUpstreamRequest_DeadlineAlways(orig, c, t, isStream) ==
    [ctx |-> IF t > 0 THEN "deadline" ELSE "inbound",
     deadline |-> IF t > 0 THEN t ELSE 0,
     cancelled |-> FALSE,
     client |-> IF isStream /\ t > 0 THEN "stream" ELSE "shared",
     responseHeaderTimeout |-> IF isStream /\ t > 0 THEN t ELSE 0,
     disableKeepAlives |-> isStream /\ t > 0,
     host |-> c.targetURL.host,
     xForwardedHost |-> orig.host,
     xForwardedProto |-> c.targetURL.scheme]

\* doUpstreamRequest up to client.Do: the request it builds and the client it picks.
\* ctx is "deadline" when context.WithTimeout was derived from the inbound context;
\* client "stream" is newStreamClient's clone with ResponseHeaderTimeout set and
\* keep-alives disabled, "shared" is cfg.client.
doUpstreamRequest(orig, c, t, isStream) ==
    [ctx |-> IF ~isStream /\ t > 0 THEN "deadline" ELSE "inbound",
     deadline |-> IF ~isStream /\ t > 0 THEN t ELSE 0,
     cancelled |-> FALSE,
     client |-> IF isStream /\ t > 0 THEN "stream" ELSE "shared",
     responseHeaderTimeout |-> IF isStream /\ t > 0 THEN t ELSE 0,
     disableKeepAlives |-> isStream /\ t > 0,
     host |-> c.targetURL.host,
     xForwardedHost |-> orig.host,
     xForwardedProto |-> c.targetURL.scheme]

\* doUpstreamRequest returns: the deferred cancel() of the deadline context runs
deferCancel(u) == [u EXCEPT !.cancelled = (u.ctx = "deadline")]

\* ------------------------------------------------------------ history
Finish(outcome) ==
    [attempts EXCEPT ![Len(attempts)].outcome = outcome]

FinishCause(outcome, cause) ==
    [attempts EXCEPT ![Len(attempts)].outcome = outcome, ![Len(attempts)].cause = cause]

FinishStatus(status, outcome) ==
    [attempts EXCEPT ![Len(attempts)].outcome = outcome, ![Len(attempts)].status = status]

\* ------------------------------------------------------------ the loop
\* Top of the loop for index i (main.go:113-122), or step 4 when the range
\* is exhausted (main.go:186-195).  lr, le, hist: lastResp, lastErr and the
\* attempt history as the previous iteration left them.
Dispatch(p, models, i, isStream, hist) ==
    /\ idx' = i
    /\ payload' = marshalPayloadWithModel(p, models[i + 1])
    /\ IF marshalFault = i
       THEN \* json.Marshal returned an error (main.go:115-119)
            /\ written' = AbortWithStatusJSON(written, StatusServiceUnavailable,
                                              "invalid json body")
            /\ pc' = "done"
            /\ attempts' = hist
            /\ upstream' = deferCancel(upstream)
            /\ UNCHANGED <<outboundBody, timeout>>
       ELSE /\ outboundBody' = Marshal(payload')
            /\ timeout' = timeoutForAttempt(cfg, i, models[i + 1])
            /\ upstream' = doUpstreamRequest(request, cfg, timeout', isStream)
            /\ attempts' = Append(hist, [idx |-> i, model |-> models[i + 1],
                                         timeout |-> timeout', status |-> 0,
                                         outcome |-> "inflight", cause |-> ""])
            /\ pc' = "inflight"
            /\ UNCHANGED written

\* mutant: a marshal failure leaves the loop for step 4 instead of returning
Iterate_MarshalBreak(models, i, lr, le, hist) ==
    IF i < Len(models) /\ marshalFault # i
    THEN /\ Dispatch(payload, models, i, stream, hist)
         /\ lastResp' = lr
         /\ lastErr' = le
    ELSE /\ written' = IF lr # NoResponse
                       THEN writeResponse(written, lr)
                       ELSE AbortWithStatusJSON(written, StatusBadGateway, "upstream error")
         /\ pc' = "done"
         /\ attempts' = hist
         /\ lastResp' = lr
         /\ lastErr' = le
         /\ upstream' = deferCancel(upstream)
         /\ UNCHANGED <<idx, payload, outboundBody, timeout>>

\* mutant: step 4 writes the last candidate and falls through to the 502
Iterate_NoReturn(models, i, lr, le, hist) ==
    IF i < Len(models)
    THEN /\ Dispatch(payload, models, i, stream, hist)
         /\ lastResp' = lr
         /\ lastErr' = le
    ELSE /\ written' = AbortWithStatusJSON(IF lr # NoResponse
                                           THEN writeResponse(written, lr)
                                           ELSE written,
                                           StatusBadGateway, "upstream error")
         /\ pc' = "done"
         /\ attempts' = hist
         /\ lastResp' = lr
         /\ lastErr' = le
         /\ upstream' = deferCancel(upstream)
         /\ UNCHANGED <<idx, payload, outboundBody, timeout>>

Iterate(models, i, lr, le, hist) ==
    IF i < Len(models)
    THEN /\ Dispatch(payload, models, i, stream, hist)
         /\ lastResp' = lr
         /\ lastErr' = le
    ELSE /\ written' = IF lr # NoResponse
                       THEN writeResponse(written, lr)
                       ELSE AbortWithStatusJSON(written, StatusBadGateway, "upstream error")
         /\ pc' = "done"
         /\ attempts' = hist
         /\ lastResp' = lr
         /\ lastErr' = le
         /\ upstream' = deferCancel(upstream)
         /\ UNCHANGED <<idx, payload, outboundBody, timeout>>

\* `return` with a fixed JSON error before any attempt
Reject(status, msg) ==
    /\ written' = AbortWithStatusJSON(written, status, msg)
    /\ pc' = "done"
    /\ UNCHANGED <<idx, outboundBody, timeout, upstream, attempts, lastResp, lastErr>>

\* ------------------------------------------------------------ actions
\* handleChatCompletion, steps 1 and 2, up to the first upstream call
HandleChatCompletion ==
    /\ pc = "start"
    /\ UNCHANGED <<marshalFault, openBodies>>
    /\ UNCHANGED <<cfg, request, ctxCancelled, resp, streamed>>
    /\ IF request.body \in {"nil", "empty"}
       THEN /\ Reject(StatusServiceUnavailable, "empty request body")
            /\ UNCHANGED <<payload, stream, attemptModels>>
       ELSE IF request.body = "unreadable"
       THEN /\ Reject(StatusBadRequest, "invalid request body")
            /\ UNCHANGED <<payload, stream, attemptModels>>
       ELSE IF request.body = "invalid_json"
       THEN /\ Reject(StatusServiceUnavailable, "invalid json body")
            /\ UNCHANGED <<payload, stream, attemptModels>>
       ELSE LET p == Unmarshal(request.json)
                modelName == extractModelName(p)
                models == buildAttemptModels(modelName, cfg.fallbackModels)
            IN  /\ stream' = isStreamRequest(p)
                /\ IF modelName = <<>>
                   THEN /\ Reject(StatusBadRequest, "model is required")
                        /\ payload' = p
                        /\ UNCHANGED attemptModels
                   ELSE IF Len(models) = 0
                   THEN /\ Reject(StatusBadRequest, "no model available")
                        /\ payload' = p
                        /\ UNCHANGED attemptModels
                   ELSE /\ attemptModels' = models
                        /\ Dispatch(p, models, 0, stream', <<>>)
                        /\ UNCHANGED <<lastResp, lastErr>>

\* the inbound request's context is cancelled while the handler is suspended
CancelRequest ==
    /\ pc \in {"inflight", "reading", "streaming"}
    /\ UNCHANGED <<marshalFault, openBodies>>
    /\ ~ctxCancelled
    /\ ctxCancelled' = TRUE
    /\ UNCHANGED <<cfg, request, pc, payload, stream, attemptModels, idx, timeout,
                   outboundBody, upstream, resp, lastResp, lastErr, written, streamed,
                   attempts>>

\* mutant: a cancelled dispatch is handled like any other error
UpstreamCanceled_AsError ==
    /\ pc = "inflight"
    /\ UNCHANGED <<marshalFault, openBodies>>
    /\ ctxCancelled
    /\ Iterate(attemptModels, idx + 1, lastResp, "canceled", Finish("canceled"))
    /\ UNCHANGED <<cfg, request, ctxCancelled, stream, attemptModels, resp, streamed>>

\* doUpstreamRequest returns an error that is context.Canceled (main.go:124-127)
UpstreamCanceled ==
    /\ pc = "inflight"
    /\ UNCHANGED <<marshalFault, openBodies>>
    /\ ctxCancelled
    /\ attempts' = Finish("canceled")
    /\ upstream' = deferCancel(upstream)
    /\ pc' = "done"
    /\ UNCHANGED <<cfg, request, ctxCancelled, payload, stream, attemptModels, idx, timeout,
                   outboundBody, resp, lastResp, lastErr, written, streamed>>

\* mutant: the first transport error is answered at once with the generic failure
UpstreamError_FailFast(cause) ==
    /\ pc = "inflight"
    /\ UNCHANGED <<marshalFault, openBodies>>
    /\ ~ctxCancelled
    /\ cause = "deadline" => upstream.ctx = "deadline"
    /\ cause = "header_timeout" => upstream.responseHeaderTimeout > 0
    /\ written' = AbortWithStatusJSON(written, StatusBadGateway, "upstream error")
    /\ attempts' = FinishCause("transport_error", cause)
    /\ upstream' = deferCancel(upstream)
    /\ lastErr' = "transport_error"
    /\ pc' = "done"
    /\ UNCHANGED <<cfg, request, ctxCancelled, stream, attemptModels, resp, streamed,
                   idx, payload, outboundBody, timeout, lastResp>>

\* doUpstreamRequest returns any other error (main.go:128-130): the connection
\* failed ("transport"), the deadline of the attempt's context elapsed
\* ("deadline"), or the stream client's ResponseHeaderTimeout elapsed before the
\* response headers arrived ("header_timeout")
UpstreamError(cause) ==
    /\ pc = "inflight"
    /\ UNCHANGED <<marshalFault, openBodies>>
    /\ ~ctxCancelled
    /\ cause = "deadline" => upstream.ctx = "deadline"
    /\ cause = "header_timeout" => upstream.responseHeaderTimeout > 0
    /\ Iterate(attemptModels, idx + 1, lastResp, "transport_error",
               FinishCause("transport_error", cause))
    /\ UNCHANGED <<cfg, request, ctxCancelled, stream, attemptModels, resp, streamed>>

\* mutant: a stream request pipes whatever status the upstream answers
UpstreamResponse_StreamAny(s) ==
    /\ pc = "inflight"
    /\ openBodies' = openBodies \cup {idx}
    /\ UNCHANGED marshalFault
    /\ ~ctxCancelled
    /\ resp' = [status |-> s, body |-> idx]
    /\ upstream' = deferCancel(upstream)
    /\ IF stream
       THEN /\ written' = Append(written, [kind |-> "stream", status |-> s, body |-> idx,
                                           error |-> ""])
            /\ streamed' = 0
            /\ attempts' = FinishStatus(s, "streaming")
            /\ pc' = "streaming"
       ELSE /\ attempts' = FinishStatus(s, "reading")
            /\ pc' = "reading"
            /\ UNCHANGED <<written, streamed>>
    /\ UNCHANGED <<cfg, request, ctxCancelled, payload, stream, attemptModels, idx, timeout,
                   outboundBody, lastResp, lastErr>>

\* doUpstreamRequest returns a response with status s (main.go:133-137, 148, 165)
UpstreamResponse(s) ==
    /\ pc = "inflight"
    /\ openBodies' = openBodies \cup {idx}
    /\ UNCHANGED marshalFault
    /\ ~ctxCancelled
    /\ resp' = [status |-> s, body |-> idx]
    /\ upstream' = deferCancel(upstream)
    /\ IF stream /\ isSuccessStatus(s)
       THEN /\ written' = Append(written, [kind |-> "stream", status |-> s, body |-> idx,
                                           error |-> ""])
            /\ streamed' = 0
            /\ attempts' = FinishStatus(s, "streaming")
            /\ pc' = "streaming"
       ELSE /\ attempts' = FinishStatus(s, "reading")
            /\ pc' = "reading"
            /\ UNCHANGED <<written, streamed>>
    /\ UNCHANGED <<cfg, request, ctxCancelled, payload, stream, attemptModels, idx, timeout,
                   outboundBody, lastResp, lastErr>>

\* mutant: the last-candidate slot keeps the first retryable response
ReadResponseOk_KeepFirst ==
    /\ pc = "reading"
    /\ UNCHANGED <<marshalFault, openBodies>>
    /\ ~ctxCancelled
    /\ LET candidate == readResponse(resp)
       IN  IF (~stream /\ isSuccessStatus(candidate.status))
              \/ isNoRetryStatus(candidate.status, cfg.noRetryStatuses)
           THEN /\ written' = writeResponse(written, candidate)
                /\ attempts' = Finish(IF isSuccessStatus(candidate.status)
                                      THEN "success" ELSE "terminal")
                /\ pc' = "done"
                /\ UNCHANGED <<idx, payload, outboundBody, timeout, upstream, lastResp,
                               lastErr>>
           ELSE Iterate(attemptModels, idx + 1,
                        IF lastResp # NoResponse THEN lastResp ELSE candidate,
                        lastErr, Finish("retryable"))
    /\ UNCHANGED <<cfg, request, ctxCancelled, stream, attemptModels, resp, streamed>>

\* readResponse returns the buffered response (main.go:155-162, 172-183)
ReadResponseOk ==
    /\ pc = "reading"
    /\ UNCHANGED <<marshalFault, openBodies>>
    /\ ~ctxCancelled
    /\ LET candidate == readResponse(resp)
       IN  IF (~stream /\ isSuccessStatus(candidate.status))
              \/ isNoRetryStatus(candidate.status, cfg.noRetryStatuses)
           THEN /\ written' = writeResponse(written, candidate)
                /\ attempts' = Finish(IF isSuccessStatus(candidate.status)
                                      THEN "success" ELSE "terminal")
                /\ pc' = "done"
                /\ UNCHANGED <<idx, payload, outboundBody, timeout, upstream, lastResp,
                               lastErr>>
           ELSE Iterate(attemptModels, idx + 1, candidate, lastErr, Finish("retryable"))
    /\ UNCHANGED <<cfg, request, ctxCancelled, stream, attemptModels, resp, streamed>>

\* readResponse returns an error (main.go:149-153, 166-170); the error is
\* context.Canceled when the inbound context was cancelled during the read
ReadResponseErr ==
    /\ pc = "reading"
    /\ UNCHANGED <<marshalFault, openBodies>>
    /\ LET kind == IF ctxCancelled THEN "read_canceled" ELSE "read_error"
       IN  Iterate(attemptModels, idx + 1, lastResp, kind, Finish(kind))
    /\ UNCHANGED <<cfg, request, ctxCancelled, stream, attemptModels, resp, streamed>>

\* copyStream: one non-empty chunk read, written and flushed (utils.go:57-65)
CopyChunk ==
    /\ pc = "streaming"
    /\ UNCHANGED <<marshalFault, openBodies>>
    /\ ~ctxCancelled
    /\ streamed < MaxChunks
    /\ streamed' = streamed + 1
    /\ UNCHANGED <<cfg, request, ctxCancelled, pc, payload, stream, attemptModels, idx,
                   timeout, outboundBody, upstream, resp, lastResp, lastErr, written,
                   attempts>>

\* mutant: a failed stream copy falls through to the next candidate
CopyEnd_Fallback(how) ==
    /\ pc = "streaming"
    /\ UNCHANGED <<marshalFault, openBodies>>
    /\ how = "stream_canceled" <=> ctxCancelled
    /\ IF how = "stream_failed"
       THEN Iterate(attemptModels, idx + 1, lastResp, "stream_failed", Finish(how))
       ELSE /\ attempts' = Finish(how)
            /\ pc' = "done"
            /\ UNCHANGED <<payload, idx, timeout, outboundBody, upstream, lastResp, lastErr,
                           written>>
    /\ UNCHANGED <<cfg, request, ctxCancelled, stream, attemptModels, resp, streamed>>

\* copyStream returns: io.EOF (nil), a read or write error, or context.Canceled;
\* the handler returns in every case (main.go:138-145)
CopyEnd(how) ==
    /\ pc = "streaming"
    /\ UNCHANGED <<marshalFault, openBodies>>
    /\ how = "stream_canceled" <=> ctxCancelled
    /\ attempts' = Finish(how)
    /\ pc' = "done"
    /\ UNCHANGED <<cfg, request, ctxCancelled, payload, stream, attemptModels, idx, timeout,
                   outboundBody, upstream, resp, lastResp, lastErr, written, streamed>>

InitWith(configs, requests, faults) ==
    /\ cfg \in configs
    /\ request \in requests
    /\ ctxCancelled = FALSE
    /\ pc = "start"
    /\ payload = NoPayload
    /\ stream = FALSE
    /\ attemptModels = <<>>
    /\ idx = 0
    /\ timeout = 0
    /\ outboundBody = NoPayload
    /\ upstream = NoUpstream
    /\ resp = NoResponse
    /\ lastResp = NoResponse
    /\ lastErr = "nil"
    /\ written = <<>>
    /\ streamed = 0
    /\ attempts = <<>>
    /\ marshalFault \in faults
    /\ openBodies = {}

Next ==
    \/ HandleChatCompletion
    \/ CancelRequest
    \/ UpstreamCanceled
    \/ \E cause \in {"transport", "deadline", "header_timeout"} : UpstreamError(cause)
    \/ \E s \in Statuses : UpstreamResponse(s)
    \/ ReadResponseOk
    \/ ReadResponseErr
    \/ CopyChunk
    \/ \E how \in {"stream_done", "stream_failed", "stream_canceled"} : CopyEnd(how)

Init == InitWith(Configs, Requests, {NoFault})

Spec == Init /\ [][Next]_vars

\* buildAttemptModels on arbitrary fallback lists
InitPlanner == InitWith(PlannerConfigs, Requests, {NoFault})

SpecPlanner == InitPlanner /\ [][Next]_vars

\* the handler when json.Marshal fails at one loop index
InitMarshalFault == InitWith(Configs, FaultRequests, 0..MaxFallbacks)

SpecMarshalFault == InitMarshalFault /\ [][Next]_vars

\* ================================================================ claims
\* Vocabulary of the claims, read off the history alone.
Is2xx(st) == 200 <= st /\ st <= 299
NoRetry(st) == st \in cfg.noRetryStatuses
\* the upstream answered attempt a with a status line
Answered(a) == a.status # 0
\* the body of attempt a was read to its end by readResponse
BodyBuffered(a) == Answered(a) /\ a.outcome \in {"success", "terminal", "retryable"}
\* the read of attempt a's body failed
BodyReadFailed(a) == a.outcome \in {"read_error", "read_canceled"}
\* attempt a ended in a way that lets the loop go on
EndedRetryable(a) ==
    \/ a.outcome = "transport_error"
    \/ BodyReadFailed(a)
    \/ BodyBuffered(a) /\ ~NoRetry(a.status) /\ (stream \/ ~Is2xx(a.status))
BufferedOf(a) == [kind |-> "buffered", status |-> a.status, body |-> a.idx, error |-> ""]
StreamOf(a) == [kind |-> "stream", status |-> a.status, body |-> a.idx, error |-> ""]
GenericFailure ==
    [kind |-> "json", status |-> 502, body |-> -1, error |-> "upstream error"]
Attempted == 1..Len(attempts)

C2_StreamCommit ==
    stream =>
        \A k \in Attempted :
            (Answered(attempts[k]) /\ Is2xx(attempts[k].status))
            => /\ Len(attempts) = k
               /\ written = <<StreamOf(attempts[k])>>
               /\ pc \in {"streaming", "done"}

\* a stream copy that failed mid-stream on the second of three candidates, after a
\* chunk was delivered
C2_Witness ==
    /\ stream
    /\ pc = "done"
    /\ Len(attempts) = 2
    /\ Len(attemptModels) = 3
    /\ attempts[2].outcome = "stream_failed"
    /\ streamed >= 1
    /\ lastResp # NoResponse

\* C3: when every candidate has been attempted, none ended in success, a terminal
\* status, a stream commit or a cancelled dispatch, and at least one produced a fully
\* buffered retryable-status response, the caller receives the response of the
\* highest-index attempt that produced one.
Exhausted ==
    /\ pc = "done"
    /\ attemptModels # <<>>
    /\ Len(attempts) = Len(attemptModels)
    /\ \A k \in Attempted : EndedRetryable(attempts[k])

C3_LastCandidateWins ==
    (Exhausted /\ \E k \in Attempted : BodyBuffered(attempts[k]))
    => LET last == CHOOSE k \in Attempted :
                      /\ BodyBuffered(attempts[k])
                      /\ \A j \in Attempted : BodyBuffered(attempts[j]) => j <= k
       IN  written = <<BufferedOf(attempts[last])>>

\* three candidates: two retryable responses, then a transport error on the last
C3_Witness ==
    /\ Exhausted
    /\ Len(attempts) = 3
    /\ attempts[1].outcome = "retryable"
    /\ attempts[2].outcome = "retryable"
    /\ attempts[3].outcome = "transport_error"
    /\ attempts[1].status # attempts[2].status

\* C4: for a non-streaming request, as soon as some candidate's buffered response has
\* a 2xx or no-retry status, that response is the one the caller receives, no later
\* candidate is dispatched, and every candidate before it ended in a transport error,
\* a body-read error or a retryable status.
C4_FirstDecisiveResponse ==
    ~stream =>
        \A k \in Attempted :
            (BodyBuffered(attempts[k]) /\ (Is2xx(attempts[k].status) \/ NoRetry(attempts[k].status)))
            => /\ Len(attempts) = k
               /\ pc = "done"
               /\ written = <<BufferedOf(attempts[k])>>
               /\ \A j \in 1..(k - 1) :
                    \/ attempts[j].outcome = "transport_error"
                    \/ BodyReadFailed(attempts[j])
                    \/ /\ BodyBuffered(attempts[j])
                       /\ ~Is2xx(attempts[j].status)
                       /\ ~NoRetry(attempts[j].status)

\* a non-streaming request of three candidates: the first answers 2xx but its body
\* cannot be read, the second answers 2xx and is delivered, the third is never tried
C4_Witness ==
    /\ ~stream
    /\ pc = "done"
    /\ Len(attemptModels) = 3
    /\ Len(attempts) = 2
    /\ attempts[1].outcome = "read_error" /\ Is2xx(attempts[1].status)
    /\ BodyBuffered(attempts[2]) /\ Is2xx(attempts[2].status)
    /\ written = <<BufferedOf(attempts[2])>>

\* C5: a request whose payload has no `model`, a non-string `model`, or a `model`
\* that is empty or only whitespace is answered 400 "model is required" and no
\* upstream attempt is dispatched.
ModelMissing(v) ==
    \/ v.t # "string"
    \/ \A i \in 1..Len(v.s) : v.s[i] = " "

C5_ModelRequired ==
    (request.body = "object" /\ ModelMissing(request.json.model) /\ pc # "start")
    => /\ pc = "done"
       /\ attempts = <<>>
       /\ written = <<[kind |-> "json", status |-> 400, body |-> -1,
                       error |-> "model is required"]>>

\* a whitespace-only model, with fallback models configured, has been rejected
C5_Witness ==
    /\ pc = "done"
    /\ request.body = "object"
    /\ request.json.model.t = "string"
    /\ Len(request.json.model.s) >= 1
    /\ \A i \in 1..Len(request.json.model.s) : request.json.model.s[i] = " "
    /\ cfg.fallbackModels # <<>>
    /\ Len(written) = 1

\* C6: attempts are dispatched one at a time in the planner's order: the k-th dispatch
\* is for the k-th candidate, the first candidate is the requested model and the rest
\* follow the configured fallback order, only the latest attempt can be unfinished,
\* every earlier one finished with a retryable outcome, no candidate is dispatched
\* twice, and there are never more dispatches than candidates.
FirstPos(m, list) == CHOOSE i \in 1..Len(list) : list[i] = m /\ \A j \in 1..(i - 1) : list[j] # m
Unfinished(a) == a.outcome \in {"inflight", "reading", "streaming"}

C6_SequentialInOrder ==
    /\ Len(attempts) <= Len(attemptModels)
    /\ \A k \in Attempted :
        /\ attempts[k].model = attemptModels[k]
        /\ attempts[k].idx = k - 1
        /\ k < Len(attempts) => EndedRetryable(attempts[k]) /\ ~Unfinished(attempts[k])
        /\ k = 1 => attempts[k].model = TrimSpace(request.json.model.s)
        /\ k > 1 => \E i \in 1..Len(cfg.fallbackModels) : cfg.fallbackModels[i] = attempts[k].model
    /\ \A j, k \in Attempted :
        /\ j # k => attempts[j].model # attempts[k].model
        /\ (1 < j /\ j < k) =>
              FirstPos(attempts[j].model, cfg.fallbackModels)
                < FirstPos(attempts[k].model, cfg.fallbackModels)
    /\ Cardinality({k \in Attempted : Unfinished(attempts[k])}) <= 1
    /\ (pc \in {"inflight", "reading", "streaming"}) =>
            (attempts # <<>> /\ Unfinished(attempts[Len(attempts)]) /\ idx = Len(attempts) - 1)

\* the second dispatch of a request whose fallback list starts with the requested
\* model: the repeated entry is skipped and the next fallback is in flight
C6_Witness ==
    /\ pc = "inflight"
    /\ Len(attempts) = 2
    /\ Len(cfg.fallbackModels) = 2
    /\ cfg.fallbackModels[1] = attempts[1].model
    /\ cfg.fallbackModels[2] = attempts[2].model
    /\ attempts[1].outcome = "read_error"

\* C7: if the dispatch of attempt k returns a cancellation error, the handler has
\* returned, attempt k is the last one dispatched, nothing at all was written to the
\* caller (even with a retryable response on record), and lastErr is still the error
\* of the latest failed attempt before k: the cancellation is not recorded.
ErrorKinds == {"transport_error", "read_error", "read_canceled"}
LastErrorBefore(k) ==
    IF \E j \in 1..(k - 1) : attempts[j].outcome \in ErrorKinds
    THEN LET j == CHOOSE j \in 1..(k - 1) :
                     /\ attempts[j].outcome \in ErrorKinds
                     /\ \A i \in 1..(k - 1) : attempts[i].outcome \in ErrorKinds => i <= j
         IN  attempts[j].outcome
    ELSE "nil"

C7_DispatchCancelled ==
    \A k \in Attempted :
        attempts[k].outcome = "canceled"
        => /\ Len(attempts) = k
           /\ pc = "done"
           /\ written = <<>>
           /\ lastErr = LastErrorBefore(k)

\* the second of three candidates is cancelled in flight while the first candidate's
\* retryable response is on record
C7_Witness ==
    /\ pc = "done"
    /\ Len(attemptModels) = 3
    /\ Len(attempts) = 2
    /\ attempts[1].outcome = "retryable"
    /\ attempts[2].outcome = "canceled"
    /\ lastResp # NoResponse

\* C8 (as stated): once the inbound context's cancellation has surfaced at the upstream
\* call, at the buffering of a response body or at a stream chunk copy, no further
\* candidate is dispatched and no exhaustion response (the recorded last candidate or
\* the generic 502) is written.
C8_AsStated ==
    \A k \in Attempted :
        attempts[k].outcome \in {"canceled", "read_canceled", "stream_canceled"}
        => /\ Len(attempts) = k
           /\ \A i \in 1..Len(written) : written[i].kind = "stream"

\* C9: the timeout of the attempt in hand is the global default for index 0 whatever
\* the per-model map holds; for an index >= 1 it is the candidate's per-model override
\* when there is one (zero included), else the fallback-wide default when that is
\* positive, else the global default.
C9_TimeoutResolution ==
    attempts # <<>> =>
        LET m == attempts[Len(attempts)].model
            i == attempts[Len(attempts)].idx
            override == m \in DOMAIN cfg.fallbackTimeouts
        IN  /\ i = 0 => timeout = cfg.defaultTimeout
            /\ (i >= 1 /\ override) => timeout = cfg.fallbackTimeouts[m]
            /\ (i >= 1 /\ ~override /\ cfg.fallbackDefaultTimeout > 0)
                  => timeout = cfg.fallbackDefaultTimeout
            /\ (i >= 1 /\ ~override /\ cfg.fallbackDefaultTimeout <= 0)
                  => timeout = cfg.defaultTimeout

\* a fallback with an override of zero is in flight, although both defaults are
\* positive, after a primary whose own map entry differs from the global default
C9_Witness ==
    /\ pc = "inflight"
    /\ Len(attempts) = 2
    /\ attempts[1].model \in DOMAIN cfg.fallbackTimeouts
    /\ cfg.fallbackTimeouts[attempts[1].model] # cfg.defaultTimeout
    /\ attempts[2].model \in DOMAIN cfg.fallbackTimeouts
    /\ cfg.fallbackTimeouts[attempts[2].model] = 0
    /\ cfg.fallbackDefaultTimeout > 0
    /\ cfg.defaultTimeout > 0
    /\ timeout = 0

\* C10: as long as every attempt so far ended in a transport error or a body-read
\* error (or is still pending), nothing is written before the candidates are
\* exhausted, and at exhaustion the caller receives exactly the generic 502.
C10_GenericFailure ==
    (attempts # <<>> /\ \A k \in Attempted :
                            attempts[k].outcome \in ErrorKinds \cup {"inflight", "reading"})
    => /\ pc = "done" => Len(attempts) = Len(attemptModels)
       /\ written = IF pc = "done" THEN <<GenericFailure>> ELSE <<>>

\* three candidates: transport error, body-read error, transport error, then the 502
C10_Witness ==
    /\ pc = "done"
    /\ Len(attempts) = 3
    /\ attempts[1].outcome = "transport_error"
    /\ attempts[2].outcome = "read_error"
    /\ attempts[3].outcome = "transport_error"
    /\ written = <<GenericFailure>>

\* C11 (as stated): a malformed inbound request (no body or an empty body, a body that
\* is not valid JSON, or a payload without a usable model) is answered with status 400
\* and a one-field error object, with no upstream attempt; 503 answers only a failure
\* of the proxy to read or re-serialize, and 502 only exhaustion.
Malformed ==
    \/ request.body \in {"nil", "empty", "invalid_json"}
    \/ request.body = "object" /\ ModelMissing(request.json.model)

C11_AsStated ==
    /\ (Malformed /\ pc = "done")
        => /\ attempts = <<>>
           /\ Len(written) = 1
           /\ written[1].kind = "json"
           /\ written[1].status = 400
    /\ \A i \in 1..Len(written) :
        (written[i].kind = "json" /\ written[i].status = 503) => ~Malformed

\* C12: for a valid request the attempt sequence is the trimmed requested model
\* followed by the trimmed fallback entries in configured order, blank entries dropped
\* and every identifier kept at its first occurrence only; it has no duplicates, at
\* least one element, the requested model first, and "no model available" is never
\* answered.
\* t is s without its leading and trailing spaces
Trimmed(s, t) ==
    /\ \E i \in 1..(Len(s) + 1) : \E j \in 0..Len(s) :
        /\ t = SubSeq(s, i, j)
        /\ \A x \in 1..(i - 1) : s[x] = " "
        /\ \A x \in (j + 1)..Len(s) : s[x] = " "
    /\ t # <<>> => (t[1] # " " /\ t[Len(t)] # " ")
PlanInputs == <<request.json.model.s>> \o cfg.fallbackModels
FirstInput(m) ==
    CHOOSE i \in 1..Len(PlanInputs) :
        /\ Trimmed(PlanInputs[i], m)
        /\ \A j \in 1..(i - 1) : ~Trimmed(PlanInputs[j], m)
ValidRequest == request.body = "object" /\ ~ModelMissing(request.json.model)

C12_AttemptSequence ==
    /\ \A i \in 1..Len(written) : written[i].error # "no model available"
    /\ (ValidRequest /\ pc # "start") =>
        /\ Len(attemptModels) >= 1
        /\ Trimmed(PlanInputs[1], attemptModels[1])
        /\ \A k \in 1..Len(attemptModels) :
            /\ attemptModels[k] # <<>>
            /\ \E i \in 1..Len(PlanInputs) : Trimmed(PlanInputs[i], attemptModels[k])
        /\ \A i \in 1..Len(PlanInputs) :
            Trimmed(PlanInputs[i], <<>>)
            \/ \E k \in 1..Len(attemptModels) : Trimmed(PlanInputs[i], attemptModels[k])
        /\ \A j, k \in 1..Len(attemptModels) :
            j < k => /\ attemptModels[j] # attemptModels[k]
                     /\ FirstInput(attemptModels[j]) < FirstInput(attemptModels[k])

\* requested " a" with fallbacks "a ", "b": the untrimmed repeat is dropped
C12_Witness ==
    /\ pc # "start"
    /\ request.body = "object"
    /\ request.json.model = JStr(<<" ", "a">>)
    /\ cfg.fallbackModels = << <<"a", " ">>, <<"b">> >>
    /\ attemptModels = << <<"a">>, <<"b">> >>

\* C13 (as stated): for a non-streaming attempt with a non-zero timeout, the attempt's
\* context is derived with that timeout and is still live, not cancelled by the proxy,
\* all the while the response body is being buffered.
C13_AsStated ==
    (pc = "reading" /\ ~stream /\ timeout > 0)
    => /\ upstream.ctx = "deadline"
       /\ upstream.deadline = timeout
       /\ ~upstream.cancelled

\* C14: a stream attempt's request runs on the inbound context with no deadline, in
\* flight and during the copy; with a non-zero timeout it goes through the stream
\* client, whose ResponseHeaderTimeout is that timeout and whose keep-alives are off,
\* and with a zero timeout through the shared client with no header timeout; an
\* attempt that failed on the header timeout had a non-zero timeout and was followed
\* by the next candidate or by exhaustion; no stream attempt fails on a deadline.
C14_StreamTimeout ==
    (stream /\ attempts # <<>>) =>
        /\ upstream.ctx = "inbound" /\ upstream.deadline = 0 /\ ~upstream.cancelled
        /\ timeout > 0 => /\ upstream.client = "stream"
                          /\ upstream.responseHeaderTimeout = timeout
                          /\ upstream.disableKeepAlives
        /\ timeout = 0 => /\ upstream.client = "shared"
                          /\ upstream.responseHeaderTimeout = 0
                          /\ ~upstream.disableKeepAlives
        /\ \A k \in Attempted :
            /\ attempts[k].cause # "deadline"
            /\ attempts[k].cause = "header_timeout"
                => /\ attempts[k].timeout > 0
                   /\ attempts[k].outcome = "transport_error"
                   /\ k < Len(attempts) \/ (pc = "done" /\ Len(attempts) = Len(attemptModels))

\* a stream request whose first candidate ran into the header timeout and whose second
\* candidate, dispatched with a non-zero timeout, is delivering chunks
C14_Witness ==
    /\ stream
    /\ pc = "streaming"
    /\ streamed >= 1
    /\ Len(attempts) = 2
    /\ attempts[1].cause = "header_timeout"
    /\ timeout > 0
    /\ upstream.responseHeaderTimeout = timeout

\* C15: for a stream request, an attempt answered with a non-2xx status never enters
\* the stream copy; while its body is being buffered nothing has been written; once
\* buffered, a no-retry status is written at once as a buffered response and ends the
\* request, any other status is kept as the last candidate and the next candidate is
\* dispatched with nothing written (or, after the last candidate, the loop is
\* exhausted); and every response with a non-2xx upstream status that the caller
\* receives is a buffered one.
C15_StreamNon2xxIsBuffered ==
    stream =>
        /\ \A k \in Attempted :
            (Answered(attempts[k]) /\ ~Is2xx(attempts[k].status)) =>
                /\ attempts[k].outcome
                      \notin {"streaming", "stream_done", "stream_failed", "stream_canceled"}
                /\ attempts[k].outcome = "reading" => (written = <<>> /\ pc = "reading")
                /\ (BodyBuffered(attempts[k]) /\ NoRetry(attempts[k].status))
                      => /\ k = Len(attempts)
                         /\ pc = "done"
                         /\ written = <<BufferedOf(attempts[k])>>
                /\ (BodyBuffered(attempts[k]) /\ ~NoRetry(attempts[k].status))
                      => /\ k < Len(attempts) \/ (pc = "done" /\ k = Len(attemptModels))
                         /\ (k < Len(attempts) /\ attempts[k + 1].outcome = "inflight")
                               => written = <<>>
                         /\ (\A j \in (k + 1)..Len(attempts) : ~BodyBuffered(attempts[j]))
                               => lastResp = [status |-> attempts[k].status,
                                              body |-> attempts[k].idx]
        /\ \A i \in 1..Len(written) :
            (written[i].kind # "json" /\ ~Is2xx(written[i].status))
                => written[i].kind = "buffered"

\* a stream request: the first candidate's 500 was buffered and recorded, the second
\* candidate's no-retry 400 was written as a buffered response
C15_Witness ==
    /\ stream
    /\ pc = "done"
    /\ Len(attempts) = 2
    /\ attempts[1].status = 500 /\ attempts[1].outcome = "retryable"
    /\ attempts[2].status = 400 /\ attempts[2].outcome = "terminal"
    /\ written = <<BufferedOf(attempts[2])>>

\* C18 (as stated): every outbound request addresses the configured upstream host,
\* carries the inbound Host value in X-Forwarded-Host, and carries the scheme the
\* inbound request arrived on in X-Forwarded-Proto.
C18_AsStated ==
    attempts # <<>> =>
        /\ upstream.host = cfg.targetURL.host
        /\ upstream.xForwardedHost = request.host
        /\ upstream.xForwardedProto = (IF request.tls THEN "https" ELSE "http")

\* C19: at most one response is ever written to the caller; once a response is
\* written the handler is either copying the stream it committed to or has returned,
\* so no further attempt is in flight and no second response follows; and when the
\* handler has returned without a dispatch having failed with a cancellation error,
\* exactly one response has been written.
C19_SingleResponse ==
    /\ Len(written) <= 1
    /\ written # <<>> =>
          /\ pc \in {"streaming", "done"}
          /\ pc = "streaming" => written[1].kind = "stream"
          /\ \A k \in Attempted : attempts[k].outcome \notin {"inflight", "reading"}
    /\ (pc = "done" /\ \A k \in Attempted : attempts[k].outcome # "canceled")
          => Len(written) = 1

\* the loop ran out after a retryable response and then a transport error, and the
\* recorded response is the one response written
C19_Witness ==
    /\ pc = "done"
    /\ Len(attempts) = 2
    /\ attempts[1].outcome = "retryable"
    /\ attempts[2].outcome = "transport_error"
    /\ written = <<BufferedOf(attempts[1])>>

\* json.Marshal failed at the loop index marshalFault: the loop came to that index,
\* every earlier attempt having ended in a way that lets the loop go on
MarshalFailed ==
    /\ marshalFault \in 0..(Len(attemptModels) - 1)
    /\ Len(attempts) = marshalFault
    /\ marshalFault > 0 => EndedRetryable(attempts[marshalFault])

InvalidJsonBody ==
    [kind |-> "json", status |-> StatusServiceUnavailable, body |-> -1,
     error |-> "invalid json body"]

\* C16: when re-serializing the payload fails at loop index i, no candidate of index
\* i or more is ever dispatched, and as soon as the loop comes to index i the handler
\* has returned with the single response 503 `invalid json body`, whatever response
\* an earlier attempt left recorded.
C16_MarshalFailureIsTerminal ==
    /\ marshalFault # NoFault => \A k \in Attempted : attempts[k].idx < marshalFault
    /\ MarshalFailed => (pc = "done" /\ written = <<InvalidJsonBody>>)

\* the first attempt's retryable response is recorded, re-serializing for the second
\* candidate fails, and the caller receives the 503 instead of the recorded response
C16_Witness ==
    /\ marshalFault = 1
    /\ MarshalFailed
    /\ attempts[1].outcome = "retryable"
    /\ lastResp = [status |-> attempts[1].status, body |-> attempts[1].idx]
    /\ written = <<InvalidJsonBody>>

\* C17 (as stated): on every attempt the body sent upstream has `model` equal to the
\* attempt's candidate and every other field equal to the value in the inbound body,
\* and the payload map differs from the decoded inbound body in `model` only.
C17_AsStated ==
    attempts # <<>> =>
        /\ outboundBody.model = JStr(attempts[Len(attempts)].model)
        /\ \A k \in DOMAIN request.json \ {"model"} : outboundBody[k] = request.json[k]
        /\ \A k \in DOMAIN payload \ {"model"} : payload[k] = Unmarshal(request.json)[k]

\* C20 (as stated): no upstream response body is open when the handler has returned
\* or when the next candidate's request is in flight.
C20_AsStated ==
    pc \in {"done", "inflight"} => openBodies = {}

====
